---- MODULE Spec2Model ----
(***************************************************************************)
(* Model of the request handler of main.py (POST /api/ask): the link       *)
(* extractor URL_RE, the article fetcher fetch_url, the prompt assembly    *)
(* and the completion client call_openai.                                  *)
(*                                                                         *)
(* Text is a sequence of one-character strings.  A fixed literal of the    *)
(* source whose characters are never sliced or scanned is written as one   *)
(* token (for example <<"SYSTEM_PROMPT">>); the two mode instructions,     *)
(* which are sliced together with the query, keep their real lengths.      *)
(***************************************************************************)
EXTENDS Integers, Sequences, FiniteSets, TLC

VARIABLES
    body,               \* the JSON body of the request (req.json())
    OPENAI_API_KEY,     \* process configuration, read once at start-up
    web,                \* environment: what a GET of each URL leads to
    llm,                \* environment: what the completions endpoint does
    pc,                 \* position of the handler
    query, mode,        \* locals of ask
    urls,               \* URL_RE.findall(query)
    started,            \* number of fetch tasks that reached session.get
    results,            \* per task: the value fetch_url returned, once done
    doneOrder,          \* task indices in the order the tasks completed
    gathered_contexts,  \* what asyncio.gather handed back
    messages,           \* the prompt
    answer,             \* what call_openai returned
    response,           \* the JSON response of the handler
    getLog,             \* URLs for which an HTTP GET was issued, in order
    postLog,            \* prompts POSTed to the completions endpoint
    call,               \* "first" or "repeat": the same request is sent twice
    prev                \* outcome of the first call

vars == <<body, OPENAI_API_KEY, web, llm, pc, query, mode, urls, started,
          results, doneOrder, gathered_contexts, messages, answer, response,
          getLog, postLog, call, prev>>

(***************************************************************************)
(* Bounds of the model                                                     *)
(***************************************************************************)
MaxLen == 5         \* longest query of the character family
MaxWords == 4       \* most words in a query of the word family
Slack == 1          \* how far past a slicing limit the long queries reach

(***************************************************************************)
(* Characters and elementary text functions                                *)
(***************************************************************************)
NL == "\n"
SP == " "
TAB == "\t"

\* what str.strip() and the regex class \S treat as whitespace
Whitespace == {SP, TAB, NL}

\* what textwrap.dedent treats as indentation: [ \t]
Blank == {SP, TAB}

SetMin(S) == CHOOSE m \in S : \A k \in S : m <= k

SetMax(S) == CHOOSE m \in S : \A k \in S : m >= k

\* s[:n]
Take(s, n) == SubSeq(s, 1, IF n < Len(s) THEN n ELSE Len(s))

\* a strip that is left out
StripIdentity(s) == s

\* str.strip()
Strip(s) ==
    LET keep == {i \in 1..Len(s) : s[i] \notin Whitespace}
    IN  IF keep = {} THEN <<>> ELSE SubSeq(s, SetMin(keep), SetMax(keep))

\* s starts with the literal lit at position i
HasAt(s, i, lit) ==
    /\ i + Len(lit) - 1 <= Len(s)
    /\ \A k \in 1..Len(lit) : s[i + k - 1] = lit[k]

Http == <<"h", "t", "t", "p", ":", "/", "/">>

Https == <<"h", "t", "t", "p", "s", ":", "/", "/">>

\* the pattern https?://\S+ matches at position i
MatchAt(s, i) ==
    \/ /\ HasAt(s, i, Https)
       /\ i + Len(Https) <= Len(s)
       /\ s[i + Len(Https)] \notin Whitespace
    \/ /\ HasAt(s, i, Http)
       /\ i + Len(Http) <= Len(s)
       /\ s[i + Len(Http)] \notin Whitespace

\* last position of the greedy \S+ of a match that starts at i
MatchEnd(s, i) ==
    LET stops == {j \in i..Len(s) : s[j] \in Whitespace}
    IN  IF stops = {} THEN Len(s) ELSE SetMin(stops) - 1

\* URL_RE.findall: leftmost match, then resume after its end
RECURSIVE FindAllFrom(_, _)
FindAllFrom(s, i) ==
    LET hits == {j \in i..Len(s) : MatchAt(s, j)}
    IN  IF hits = {} THEN <<>>
        ELSE LET j == SetMin(hits)
             IN  <<SubSeq(s, j, MatchEnd(s, j))>> \o FindAllFrom(s, MatchEnd(s, j) + 1)

URL_RE_findall(s) == FindAllFrom(s, 1)

\* "sep".join(parts)
RECURSIVE Join(_, _)
Join(sep, parts) ==
    IF parts = <<>> THEN <<>>
    ELSE IF Len(parts) = 1 THEN parts[1]
    ELSE parts[1] \o sep \o Join(sep, Tail(parts))

\* text.split("\n"): the lines of a text
RECURSIVE SplitLines(_)
SplitLines(t) ==
    LET nls == {i \in 1..Len(t) : t[i] = NL}
    IN  IF nls = {} THEN <<t>>
        ELSE LET i == SetMin(nls)
             IN  <<SubSeq(t, 1, i - 1)>> \o SplitLines(SubSeq(t, i + 1, Len(t)))

(***************************************************************************)
(* textwrap.dedent                                                         *)
(***************************************************************************)
IsBlankLine(l) == \A i \in 1..Len(l) : l[i] \in Blank

\* the leading run of spaces and tabs of a line that holds something else
Indent(l) ==
    LET solid == {i \in 1..Len(l) : l[i] \notin Blank}
    IN  SubSeq(l, 1, SetMin(solid) - 1)

\* the longest common prefix of the indents of the lines that are not blank
Margin(lines) ==
    LET idx == {i \in 1..Len(lines) : ~IsBlankLine(lines[i])}
    IN  IF idx = {} THEN <<>>
        ELSE LET shortest == SetMin({Len(Indent(lines[i])) : i \in idx})
                 common == {k \in 0..shortest :
                              \A i, j \in idx :
                                  SubSeq(Indent(lines[i]), 1, k) = SubSeq(Indent(lines[j]), 1, k)}
             IN  SubSeq(Indent(lines[SetMin(idx)]), 1, SetMax(common))

\* lines of spaces and tabs are emptied, then the common margin is removed
Dedent(text) ==
    LET lines == SplitLines(text)
        m == Len(Margin(lines))
    IN  Join(<<NL>>, [i \in 1..Len(lines) |->
                        IF IsBlankLine(lines[i]) THEN <<>>
                        ELSE SubSeq(lines[i], m + 1, Len(lines[i]))])

(***************************************************************************)
(* Literals of the source                                                  *)
(***************************************************************************)
SYSTEM_PROMPT == <<"SYSTEM_PROMPT">>

\* the answer to an empty query
EmptyQueryAnswer == <<"write-your-question">>

\* lengths of the two mode instructions, their closing "\n\n" included
SummarizeLen == 24

CodeLen == 45

SummarizeInstruction == [i \in 1..SummarizeLen |-> IF i > SummarizeLen - 2 THEN NL ELSE "s"]

CodeInstruction == [i \in 1..CodeLen |-> IF i > CodeLen - 2 THEN NL ELSE "c"]

\* the instruction that precedes the joined contexts, with its "\n\n"
ContextInstruction == <<"summarize-this-context-then-answer", NL, NL>>

\* how much of the user message the fallback answer repeats
UnderstandingLimit == 500

ShortAnswerLimit == 200

Indent8 == <<SP, SP, SP, SP, SP, SP, SP, SP>>

PlanHead ==
    <<NL>> \o Indent8 \o <<"(simple-mode-without-API)", NL, NL>>
           \o Indent8 \o <<"my-understanding:", NL, "-", SP>>

PlanMiddle ==
    <<NL, NL, "general-plan:", NL, "1)", NL, "2)", NL, "3)", NL, "4)", NL, NL,
      "short-answer:", NL, "-", SP>>

PlanTail == <<SP, "--", SP, "needs-detail.", NL, NL>> \o Indent8

(***************************************************************************)
(* fetch_url                                                               *)
(***************************************************************************)
FailKinds == {"transport", "status", "parse"}

\* what the GET of a URL leads to; a URL the environment does not know is a 404
Fate(w, u) == IF u \in DOMAIN w THEN w[u] ELSE "status"

\* the page behind a URL: readability's title and the markdown of its body
PageTitle(u) == <<"title-of:">> \o u

PageMarkdown(u) == <<SP, "body-of:">> \o u \o <<NL>>

\* the try block: GET, raise_for_status, extraction, formatting
FetchBody(u, fate) ==
    IF fate = "ok"
    THEN [raised |-> FALSE,
          value |-> <<"#", SP>> \o PageTitle(u) \o <<NL, NL>> \o Strip(PageMarkdown(u))]
    ELSE [raised |-> TRUE, value |-> <<"error:", fate>>]

\* a fetch_url whose except clause lets parse errors through
fetch_url_partial(u, fate) ==
    LET r == FetchBody(u, fate)
    IN  IF r.raised /\ fate # "parse"
        THEN [raised |-> FALSE, value |-> <<"(could-not-fetch:", SP>> \o r.value \o <<")">>]
        ELSE r

\* try ... except Exception: every failure becomes a placeholder string
fetch_url(u, fate) ==
    LET r == FetchBody(u, fate)
    IN  IF r.raised
        THEN [raised |-> FALSE, value |-> <<"(could-not-fetch:", SP>> \o r.value \o <<")">>]
        ELSE r

(***************************************************************************)
(* Prompt assembly                                                         *)
(***************************************************************************)
\* the user message ignores the mode
UserContentRaw(m, q) == q

\* lines 126-131 of ask
UserContent(m, q) ==
    IF m = "summarize" THEN SummarizeInstruction \o q
    ELSE IF m = "code" THEN CodeInstruction \o q
    ELSE q

\* the context message is added only when some fetch succeeded
ContextMessagesIfFetched(ctxs) ==
    IF \E i \in 1..Len(ctxs) : ctxs[i][1] = "#"
    THEN <<[role |-> "system", content |-> ContextInstruction \o Join(<<NL, NL>>, ctxs)]>>
    ELSE <<>>

\* lines 116-123 of ask
ContextMessages(ctxs) ==
    IF ctxs # <<>>
    THEN <<[role |-> "system", content |-> ContextInstruction \o Join(<<NL, NL>>, ctxs)]>>
    ELSE <<>>

\* lines 114-131 of ask
BuildMessages(q, m, ctxs) ==
    <<[role |-> "system", content |-> SYSTEM_PROMPT]>>
        \o ContextMessages(ctxs)
        \o <<[role |-> "user", content |-> UserContent(m, q)]>>

(***************************************************************************)
(* call_openai                                                             *)
(***************************************************************************)
\* next((m["content"] for m in messages if m["role"] == "user"), "")
FirstUserContent(msgs) ==
    LET us == {i \in 1..Len(msgs) : msgs[i].role = "user"}
    IN  IF us = {} THEN <<>> ELSE msgs[SetMin(us)].content

\* both echoes cut at the short limit
FallbackPlanShort(msgs) ==
    LET user == FirstUserContent(msgs)
    IN  Strip(Dedent(PlanHead \o Take(user, ShortAnswerLimit) \o PlanMiddle
                       \o Take(user, ShortAnswerLimit) \o PlanTail))

\* lines 75-79: the local answer when no key is configured
FallbackPlan(msgs) ==
    LET user == FirstUserContent(msgs)
    IN  Strip(Dedent(PlanHead \o Take(user, UnderstandingLimit) \o PlanMiddle
                       \o Take(user, ShortAnswerLimit) \o PlanTail))

\* the check for a missing key is left out
UsesFallbackNever(key) == FALSE

\* if not OPENAI_API_KEY
UsesFallback(key) == key = ""

\* a failed completion is replaced by the local answer
PostResultRecover(reply, msgs) ==
    IF reply.kind = "ok"
    THEN [raised |-> FALSE, value |-> Strip(reply.content)]
    ELSE [raised |-> FALSE, value |-> FallbackPlan(msgs)]

\* lines 89-93: POST, raise_for_status, first choice, strip
PostResult(reply, msgs) ==
    IF reply.kind = "ok"
    THEN [raised |-> FALSE, value |-> Strip(reply.content)]
    ELSE [raised |-> TRUE, value |-> <<"error:", reply.kind>>]

(***************************************************************************)
(* The response of ask                                                     *)
(***************************************************************************)
Provider(key) == IF key # "" THEN "openai-compatible" ELSE "fallback-local"

\* line 103
EmptyQueryResponse == [ok |-> TRUE, answer |-> EmptyQueryAnswer]

\* lines 135-143
FullResponse(a, us, m, key) ==
    [ok |-> TRUE, answer |-> a,
     meta |-> [urls |-> us, mode |-> m, provider |-> Provider(key)]]

NoResponse == [none |-> TRUE]

(***************************************************************************)
(* Requests and environments the model is run on                           *)
(***************************************************************************)
SeqsUpTo(S, n) == UNION {[1..k -> S] : k \in 0..n}

\* every text of at most MaxLen characters over a space, a newline and a letter
CharQueries == SeqsUpTo({SP, NL, "a"}, MaxLen)

UrlA == Http \o <<"a">>

UrlB == Https \o <<"b">>

Words == {<<"h", "i">>, UrlA, UrlB}

\* at most MaxWords words, one space between two of them
WordQueries == {Join(<<SP>>, ws) : ws \in SeqsUpTo(Words, MaxWords)}

\* one-word queries and texts on which the pattern is easy to get wrong
OddQueries ==
    Words \cup
    { Http,
      <<"x">> \o UrlA \o <<",">>,
      UrlA \o UrlB,
      Http \o <<SP>> \o UrlA \o <<NL>> \o UrlB \o <<TAB, "x">>,
      <<"h", "t", "t", "p", "s", "s">> \o <<":", "/", "/", "a">>,
      <<SP, TAB, NL>>,
      <<"a", NL, SP, TAB, NL>> \o UrlA }

Filler(n) == [i \in 1..n |-> IF i = 1 THEN "q" ELSE "x"]

\* queries that end at, or Slack past, the point where a slice cuts them
LongQueries ==
    {Filler(limit - lead + d) : limit \in {UnderstandingLimit, ShortAnswerLimit},
                                lead \in {0, SummarizeLen, CodeLen},
                                d \in 0..Slack}

ModeValues == {"auto", "summarize", "code", "chat", "Summarize"}

\* JSON bodies with and without the optional mode
Bodies(queries, modes) ==
    {[query |-> q] : q \in queries} \cup {[query |-> q, mode |-> m] : q \in queries, m \in modes}

OkReply == [kind |-> "ok", content |-> <<SP, "A", SP, "n", NL>>]

Replies == {OkReply} \cup {[kind |-> k, content |-> <<>>] : k \in {"status", "transport"}}

NoKey == [key |-> "", llm |-> OkReply]

Configs == {NoKey} \cup {[key |-> "sk-test", llm |-> r] : r \in Replies}

\* UrlA is served; UrlB fails in the way k
World(k) == (UrlA :> "ok") @@ (UrlB :> k)

Requests ==
    {[body |-> b, cfg |-> c, web |-> World("transport")] :
        b \in Bodies(CharQueries \cup OddQueries, ModeValues), c \in Configs}
    \cup
    {[body |-> b, cfg |-> c, web |-> World(k)] :
        b \in Bodies(WordQueries, {}), c \in Configs, k \in FailKinds}
    \cup
    {[body |-> b, cfg |-> NoKey, web |-> World("transport")] :
        b \in Bodies(LongQueries, ModeValues)}

(***************************************************************************)
(* The handler                                                             *)
(***************************************************************************)
\* body.get("query", "")
BodyQuery(b) == IF "query" \in DOMAIN b THEN b.query ELSE <<>>

\* body.get("mode", "auto")
BodyMode(b) == IF "mode" \in DOMAIN b THEN b.mode ELSE "auto"

\* the cap of urls[:3]
FetchCap == 3

\* every URL gets a task
TasksAll(us) == us

\* urls[:3]
Tasks(us) == Take(us, FetchCap)

NotDone == [done |-> FALSE, raised |-> FALSE, value |-> <<>>]

\* gather hands back as soon as one task is done
GatherReadyAny(res) == \E i \in 1..Len(res) : res[i].done

\* asyncio.gather resolves when every task is done, or when one has raised
GatherReady(res) ==
    \/ \A i \in 1..Len(res) : res[i].done
    \/ \E i \in 1..Len(res) : res[i].done /\ res[i].raised

\* results in the order the tasks completed
GatherByCompletion(res, order) == [k \in 1..Len(order) |-> res[order[k]].value]

\* asyncio.gather returns the results in the order of its arguments
Gather(res, order) == [i \in 1..Len(res) |-> res[i].value]

Init ==
    \E r \in Requests :
        /\ body = r.body
        /\ OPENAI_API_KEY = r.cfg.key
        /\ llm = r.cfg.llm
        /\ web = r.web
        /\ pc = "idle"
        /\ query = <<>>
        /\ mode = ""
        /\ urls = <<>>
        /\ started = 0
        /\ results = <<>>
        /\ doneOrder = <<>>
        /\ gathered_contexts = <<>>
        /\ messages = <<>>
        /\ answer = <<>>
        /\ response = NoResponse
        /\ getLog = <<>>
        /\ postLog = <<>>
        /\ call = "first"
        /\ prev = NoResponse

\* lines 113-143 up to the first suspension: the prompt, then either the local
\* answer and the response, or the POST to the completions endpoint
Assemble(q, m, us, ctxs) ==
    LET msgs == BuildMessages(q, m, ctxs)
    IN  /\ gathered_contexts' = ctxs
        /\ messages' = msgs
        /\ IF UsesFallback(OPENAI_API_KEY)
           THEN /\ answer' = FallbackPlan(msgs)
                /\ response' = FullResponse(FallbackPlan(msgs), us, m, OPENAI_API_KEY)
                /\ pc' = "done"
                /\ postLog' = postLog
           ELSE /\ pc' = "posting"
                /\ postLog' = Append(postLog, msgs)
                /\ UNCHANGED <<answer, response>>

\* lines 97-111: the request arrives; runs up to the first suspension
Ask ==
    /\ pc = "idle"
    /\ LET q == Strip(BodyQuery(body))
           m == BodyMode(body)
           us == URL_RE_findall(q)
       IN  /\ query' = q
           /\ mode' = m
           /\ IF q = <<>>
              THEN /\ response' = EmptyQueryResponse
                   /\ pc' = "done"
                   /\ UNCHANGED <<urls, results, gathered_contexts, messages,
                                  answer, postLog>>
              ELSE /\ urls' = us
                   /\ IF us # <<>>
                      THEN /\ pc' = "gather"
                           /\ results' = [i \in 1..Len(Tasks(us)) |-> NotDone]
                           /\ UNCHANGED <<gathered_contexts, messages, answer,
                                          response, postLog>>
                      ELSE /\ Assemble(q, m, us, <<>>)
                           /\ UNCHANGED results
    /\ UNCHANGED <<body, OPENAI_API_KEY, web, llm, started, doneOrder, getLog,
                   call, prev>>

\* lines 52-54: task i runs up to its GET; tasks start in the order of the list
StartFetch(i) ==
    /\ pc = "gather"
    /\ i = started + 1
    /\ i <= Len(results)
    /\ started' = i
    /\ getLog' = Append(getLog, Tasks(urls)[i])
    /\ UNCHANGED <<body, OPENAI_API_KEY, web, llm, pc, query, mode, urls,
                   results, doneOrder, gathered_contexts, messages, answer,
                   response, postLog, call, prev>>

\* lines 55-69: the GET of task i is over, fetch_url returns
FinishFetch(i) ==
    /\ pc = "gather"
    /\ i <= started
    /\ ~results[i].done
    /\ LET u == Tasks(urls)[i]
           r == fetch_url(u, Fate(web, u))
       IN  results' = [results EXCEPT ![i] =
                          [done |-> TRUE, raised |-> r.raised, value |-> r.value]]
    /\ doneOrder' = Append(doneOrder, i)
    /\ UNCHANGED <<body, OPENAI_API_KEY, web, llm, pc, query, mode, urls,
                   started, gathered_contexts, messages, answer, response,
                   getLog, postLog, call, prev>>

\* line 111 onwards: gather resolves and the handler goes on
GatherReturn ==
    /\ pc = "gather"
    /\ GatherReady(results)
    /\ IF \E i \in 1..Len(results) : results[i].done /\ results[i].raised
       THEN /\ pc' = "error"
            /\ UNCHANGED <<gathered_contexts, messages, answer, response, postLog>>
       ELSE Assemble(query, mode, urls, Gather(results, doneOrder))
    /\ UNCHANGED <<body, OPENAI_API_KEY, web, llm, query, mode, urls, started,
                   results, doneOrder, getLog, call, prev>>

\* lines 90-93 and 135-143: the POST is over
PostReturn ==
    /\ pc = "posting"
    /\ LET r == PostResult(llm, messages)
       IN  IF r.raised
           THEN /\ pc' = "error"
                /\ UNCHANGED <<answer, response>>
           ELSE /\ answer' = r.value
                /\ response' = FullResponse(r.value, urls, mode, OPENAI_API_KEY)
                /\ pc' = "done"
    /\ UNCHANGED <<body, OPENAI_API_KEY, web, llm, query, mode, urls, started,
                   results, doneOrder, gathered_contexts, messages, getLog,
                   postLog, call, prev>>

Finished == pc \in {"done", "error"}

\* what a caller and the completions endpoint saw of a call
Outcome == [status |-> pc, response |-> response, messages |-> messages, prompts |-> postLog]

\* the same request is sent a second time; nothing of the first call is kept
Repeat ==
    /\ call = "first"
    /\ Finished
    /\ call' = "repeat"
    /\ prev' = Outcome
    /\ pc' = "idle"
    /\ query' = <<>>
    /\ mode' = ""
    /\ urls' = <<>>
    /\ started' = 0
    /\ results' = <<>>
    /\ doneOrder' = <<>>
    /\ gathered_contexts' = <<>>
    /\ messages' = <<>>
    /\ answer' = <<>>
    /\ response' = NoResponse
    /\ getLog' = <<>>
    /\ postLog' = <<>>
    /\ UNCHANGED <<body, OPENAI_API_KEY, web, llm>>

Next ==
    \/ Ask
    \/ \E i \in DOMAIN results : StartFetch(i)
    \/ \E i \in DOMAIN results : FinishFetch(i)
    \/ GatherReturn
    \/ PostReturn
    \/ Repeat

Spec == Init /\ [][Next]_vars

(***************************************************************************)
(* Vocabulary of the claims                                                *)
(***************************************************************************)
\* the raw query holds nothing but whitespace
BlankBody == \A i \in 1..Len(BodyQuery(body)) : BodyQuery(body)[i] \in Whitespace

\* the handler is past the gather, on its way to or past the completion
PastGather == pc \in {"posting", "done", "error"} /\ query # <<>>

\* the request got as far as the Completion Client
ReachedCompletion == pc \in {"posting", "done"} /\ query # <<>>

NoKeyConfigured == OPENAI_API_KEY = ""

CompletionFails == OPENAI_API_KEY # "" /\ llm.kind # "ok"

FetchedCount == IF Len(urls) < 3 THEN Len(urls) ELSE 3

UserMessage == messages[Len(messages)].content

\* t occurs in s as a run of consecutive characters
Contains(s, t) ==
    \E i \in 0..(Len(s) - Len(t)) : \A k \in 1..Len(t) : s[i + k] = t[k]

PositionOf(s, token) == SetMin({i \in 1..Len(s) : s[i] = token})

\* the text between "my-understanding:\n- " and "\n\ngeneral-plan:"
UnderstandingEcho(a) ==
    SubSeq(a, PositionOf(a, "my-understanding:") + 4, PositionOf(a, "general-plan:") - 3)

\* the text between "short-answer:\n- " and " -- needs-detail."
ShortAnswerEcho(a) ==
    SubSeq(a, PositionOf(a, "short-answer:") + 4, PositionOf(a, "needs-detail.") - 4)

\* the spaces and tabs of u that stand on a line of nothing else, the first
\* line excepted, and the last line too unless a newline follows u
EmptiedPositions(u, closed) ==
    {i \in 1..Len(u) :
        /\ u[i] \in Blank
        /\ LET before == {j \in 1..(i - 1) : u[j] = NL}
               after == {j \in (i + 1)..Len(u) : u[j] = NL}
               lo == IF before = {} THEN 0 ELSE SetMax(before)
               hi == IF after = {} THEN Len(u) + 1 ELSE SetMin(after)
           IN  /\ lo >= 1
               /\ hi <= Len(u) \/ closed
               /\ \A j \in (lo + 1)..(hi - 1) : u[j] \in Blank}

\* e is u without the characters at EmptiedPositions
IsEchoOf(e, u, closed) ==
    LET gone == EmptiedPositions(u, closed)
    IN  /\ Len(e) = Len(u) - Cardinality(gone)
        /\ \A i \in (1..Len(u)) \ gone :
               e[i - Cardinality({d \in gone : d < i})] = u[i]

(***************************************************************************)
(* C1                                                                      *)
(***************************************************************************)
\* C1: a request whose query is empty or whitespace-only, whatever its mode,
\* gets the fixed prompt-for-input response with ok = true and no meta, and
\* no fetch and no completion call is made at any point of the request.
Thm_C1 ==
    (BlankBody /\ pc # "idle") =>
        /\ pc = "done"
        /\ response = [ok |-> TRUE, answer |-> EmptyQueryAnswer]
        /\ "meta" \notin DOMAIN response
        /\ started = 0
        /\ getLog = <<>>
        /\ postLog = <<>>
        /\ messages = <<>>

Wit_C1 ==
    /\ BlankBody
    /\ Len(BodyQuery(body)) > 1
    /\ "mode" \in DOMAIN body
    /\ body.mode = "summarize"
    /\ OPENAI_API_KEY # ""
    /\ pc = "done"

(***************************************************************************)
(* C2                                                                      *)
(***************************************************************************)
\* C2: for a non-empty query with n URL occurrences the handler issues
\* exactly min(n, 3) fetches, for the first min(n, 3) occurrences in their
\* order of appearance, and meta.urls lists all n occurrences in order.
Thm_C2 ==
    /\ pc = "gather" => /\ started <= FetchedCount
                        /\ getLog = SubSeq(urls, 1, started)
    /\ PastGather => getLog = SubSeq(urls, 1, FetchedCount)
    /\ (pc = "done" /\ query # <<>>) =>
           /\ response.meta.urls = urls
           /\ urls = <<>> => (started = 0 /\ getLog = <<>>)

Wit_C2 ==
    /\ pc = "done"
    /\ Len(urls) > 3
    /\ urls[4] # urls[3]
    /\ Len(getLog) = 3
    /\ response.meta.urls = urls

(***************************************************************************)
(* C3                                                                      *)
(***************************************************************************)
\* C3: whatever the order in which the fetches complete, context i is the
\* result of fetching the i-th extracted URL; and a repeated call of the same
\* request, with the same fetch and completion results, ends with the same
\* prompt and the same response as the first call.
Thm_C3 ==
    /\ PastGather =>
           /\ Len(gathered_contexts) = FetchedCount
           /\ \A i \in 1..Len(gathered_contexts) :
                  gathered_contexts[i] = fetch_url(urls[i], Fate(web, urls[i])).value
    /\ (call = "repeat" /\ Finished) =>
           /\ messages = prev.messages
           /\ postLog = prev.prompts
           /\ response = prev.response
           /\ pc = prev.status

Wit_C3 ==
    /\ call = "repeat"
    /\ pc = "done"
    /\ doneOrder = <<3, 1, 2>>
    /\ urls[1] # urls[2]
    /\ urls[2] # urls[3]

(***************************************************************************)
(* C4                                                                      *)
(***************************************************************************)
\* C4: a failed fetch (transport error, non-2xx status, extraction error)
\* never fails the request: fetch_url returns a placeholder, there are as many
\* contexts as fetched URLs, the placeholder is part of the context message,
\* and the request goes on to the Completion Client and, if that succeeds,
\* ends with ok = true and meta.
Thm_C4 ==
    /\ \A i \in DOMAIN results : ~results[i].raised
    /\ pc = "error" => CompletionFails
    /\ PastGather =>
           /\ Len(gathered_contexts) = Len(getLog)
           /\ \A i \in 1..Len(gathered_contexts) :
                  /\ Fate(web, urls[i]) \in FailKinds =>
                         gathered_contexts[i][1] = "(could-not-fetch:"
                  /\ urls # <<>> => Contains(messages[2].content, gathered_contexts[i])
           /\ pc = "error" \/ Len(postLog) = 1 \/ NoKeyConfigured
    /\ (pc = "done" /\ query # <<>>) =>
           /\ response.ok
           /\ "meta" \in DOMAIN response

Wit_C4 ==
    /\ pc = "done"
    /\ Len(getLog) = 3
    /\ Fate(web, urls[1]) = "parse"
    /\ Fate(web, urls[2]) = "ok"
    /\ Fate(web, urls[3]) = "parse"
    /\ OPENAI_API_KEY # ""

(***************************************************************************)
(* C5                                                                      *)
(***************************************************************************)
\* C5: with a key configured, a failing completion call ends the request in
\* an error: no response is produced, the local answer is not substituted,
\* and the completion call is issued at most once.
Thm_C5 ==
    /\ Len(postLog) <= 1
    /\ (CompletionFails /\ query # <<>>) =>
           /\ pc \in {"gather", "posting", "error"}
           /\ response = NoResponse
           /\ answer = <<>>
           /\ pc = "error" => Len(postLog) = 1

Wit_C5 ==
    /\ pc = "error"
    /\ llm.kind = "transport"
    /\ Len(postLog) = 1
    /\ Len(getLog) = 2

(***************************************************************************)
(* C6                                                                      *)
(***************************************************************************)
\* C6: for a non-empty query meta.provider is "fallback-local" exactly when
\* no key is configured and "openai-compatible" exactly when one is; without
\* a key no completion POST is issued, the request never fails, while it
\* gathers a fetch can start or finish or all have returned, and it ends with
\* ok = true and meta.
Thm_C6 ==
    /\ (pc = "done" /\ query # <<>>) =>
           /\ response.meta.provider = "fallback-local" <=> OPENAI_API_KEY = ""
           /\ response.meta.provider = "openai-compatible" <=> OPENAI_API_KEY # ""
    /\ (NoKeyConfigured /\ query # <<>>) =>
           /\ postLog = <<>>
           /\ pc \in {"gather", "done"}
           /\ pc = "gather" =>
                  \/ started < Len(results)
                  \/ \E i \in 1..started : ~results[i].done
                  \/ \A i \in DOMAIN results : results[i].done /\ ~results[i].raised
           /\ pc = "done" => (response.ok /\ "meta" \in DOMAIN response)

Wit_C6 ==
    /\ pc = "done"
    /\ NoKeyConfigured
    /\ Len(getLog) = 3
    /\ response.meta.provider = "fallback-local"

(***************************************************************************)
(* C7                                                                      *)
(***************************************************************************)
\* C7 as claimed: without a key, for every non-empty query and every mode,
\* the answer embeds the first 500 characters of the query and the first 200
\* characters of the query.
Cex_C7 ==
    (pc = "done" /\ NoKeyConfigured /\ query # <<>>) =>
        /\ Contains(answer, Take(query, 500))
        /\ Contains(answer, Take(query, 200))

\* C7 as amended: without a key, for every non-empty query and every mode,
\* the "understanding" echo is the first 500 characters, and the "short
\* answer" echo the first 200 characters, of the user message (the query, led
\* by the mode's instruction for summarize and code), except that a line of
\* an echo after its first that holds only spaces and tabs comes out empty
\* (the last line of the short-answer echo is left as it is).
Thm_C7 ==
    (pc = "done" /\ NoKeyConfigured /\ query # <<>>) =>
        /\ IsEchoOf(UnderstandingEcho(answer), Take(UserMessage, 500), TRUE)
        /\ IsEchoOf(ShortAnswerEcho(answer), Take(UserMessage, 200), FALSE)
        /\ response.answer = answer

Wit_C7 ==
    /\ pc = "done"
    /\ NoKeyConfigured
    /\ mode = "summarize"
    /\ Len(query) > 500 - SummarizeLen
    /\ Len(UnderstandingEcho(answer)) = 500

(***************************************************************************)
(* C8                                                                      *)
(***************************************************************************)
\* C8: the user message is the summarize instruction followed by the query
\* for mode "summarize", the code instruction followed by the query for mode
\* "code", and the query alone for every other mode or none; for one query
\* the three are different texts, so each form occurs for its modes only.
Thm_C8 ==
    ReachedCompletion =>
        /\ mode = "summarize" <=> UserMessage = SummarizeInstruction \o query
        /\ mode = "code" <=> UserMessage = CodeInstruction \o query
        /\ mode \notin {"summarize", "code"} <=> UserMessage = query
        /\ mode = (IF "mode" \in DOMAIN body THEN body.mode ELSE "auto")

Wit_C8 ==
    /\ pc = "done"
    /\ mode = "Summarize"
    /\ query # <<>>
    /\ UserMessage = query
    /\ urls # <<>>

(***************************************************************************)
(* C9                                                                      *)
(***************************************************************************)
\* C9: the prompt handed to the Completion Client starts with the persona
\* system message, holds a second system message with the contexts joined by
\* a blank line exactly when a URL was found in the query (also when every
\* fetch failed), and ends with the only user message: 2 messages without a
\* URL, 3 with one.
Thm_C9 ==
    ReachedCompletion =>
        /\ messages[1] = [role |-> "system", content |-> SYSTEM_PROMPT]
        /\ Len(messages) = (IF urls = <<>> THEN 2 ELSE 3)
        /\ urls # <<>> =>
               /\ messages[2].role = "system"
               /\ messages[2].content =
                      ContextInstruction \o Join(<<NL, NL>>, gathered_contexts)
        /\ \A i \in 1..Len(messages) : messages[i].role = "user" <=> i = Len(messages)
        /\ \A k \in 1..Len(postLog) : postLog[k] = messages

Wit_C9 ==
    /\ pc = "done"
    /\ Len(messages) = 3
    /\ Len(getLog) = 2
    /\ \A i \in 1..2 : Fate(web, urls[i]) \in FailKinds

(***************************************************************************)
(* C10                                                                     *)
(***************************************************************************)
\* C10: the Completion Client is invoked only after every fetch started for
\* the request has finished, no fetch is started or in flight once the
\* completion call has begun, every fetched occurrence is fetched exactly
\* once, and the response is produced only after the completion call.
Thm_C10 ==
    /\ (messages # <<>> \/ postLog # <<>> \/ PastGather) =>
           /\ started = Len(results)
           /\ \A i \in DOMAIN results : results[i].done
           /\ Len(getLog) = FetchedCount
    /\ Len(getLog) = started
    /\ Len(doneOrder) = Cardinality({i \in DOMAIN results : results[i].done})
    /\ \A i \in DOMAIN results : results[i].done => i <= started
    /\ pc \in {"gather", "posting"} => response = NoResponse
    /\ "meta" \in DOMAIN response =>
           /\ pc = "done"
           /\ answer = response.answer
           /\ ~NoKeyConfigured => Len(postLog) = 1

Wit_C10 ==
    /\ pc = "done"
    /\ ~NoKeyConfigured
    /\ Len(results) = 3
    /\ urls[1] = urls[3]

====
